---- MODULE Spec2Model ----
(***************************************************************************)
(* State-machine model of three components of silx:                        *)
(*                                                                         *)
(*   - silx/opencl/codec/byte_offset.py: the ByteOffset decompressor, one  *)
(*     instance shared by the threads of Threads, each calling dec(), and  *)
(*     a call of its constructor taken statement by statement;             *)
(*   - silx/gui/plot/test/utils.py: the PlotWidgetTestCase fixture         *)
(*     (setUp, tearDown, _waitForPlotClosed);                              *)
(*   - silx/image/test/test_medianfilter.py: the import of the test        *)
(*     module and the run of its two test methods.                         *)
(*                                                                         *)
(* The machines share no state.  Spec (and SpecFair, Spec with fair        *)
(* scheduling) runs the decompressor, SpecHarness the fixture, SpecMedian  *)
(* the median-filter test module and SpecConstructor the constructor call; *)
(* each leaves the others at rest.                                         *)
(*                                                                         *)
(* Sizes are numpy.int32 in the source; every size of the model is far     *)
(* below 2^31, so no operation of the model reaches the wrap-around.       *)
(***************************************************************************)
EXTENDS Integers, Sequences, FiniteSets, TLC

(***************************************************************************)
(* Bounds of the model.                                                    *)
(***************************************************************************)
\* longest raw stream handed to dec() (streams have 1 .. MaxRaw bytes)
MaxRaw == 3
\* total number of dec() calls started on the instance
MaxCalls == 2
\* largest counter value the device hands back in 'copy counter D -> H'
MaxExc == 1

\* the threads calling dec() on the one instance
Threads == {"t1", "t2"}

\* the raw_size and dec_size values handed to the constructor
InitRawSizes == {1, 2}
DecSizes == {1, 3}

\* block_size hints handed to the constructor: a power of two below the
\* clamp, one above it, and one value that is no power of two
BlockSizeHints == {2, 6, 256}

(***************************************************************************)
(* Program constants.                                                      *)
(***************************************************************************)
\* byte_offset.py:68  min(block_size, 128)
MaxBlockSize == 128
\* utils.py:73  for _ in range(100)
PollBudget == 100
\* utils.py:76  self.qWait(10)
WaitMs == 10

(***************************************************************************)
(* Integer bit operations, as Python and numpy compute them on two's       *)
(* complement integers: x & y and ~x.                                      *)
(***************************************************************************)
RECURSIVE BitAnd(_, _)
BitAnd(a, b) ==
    IF a = 0 \/ b = 0 THEN 0
    ELSE IF a = -1 THEN b
    ELSE IF b = -1 THEN a
    ELSE (a % 2) * (b % 2) + 2 * BitAnd(a \div 2, b \div 2)

BitNot(a) == -a - 1

Min(a, b) == IF a < b THEN a ELSE b

\* mutant of PaddedSize: the rounding adds wg instead of wg - 1
PaddedSizeOffByOne(size, wg) == BitAnd(size + wg, BitNot(wg - 1))

\* byte_offset.py:72-73 and :118   (size + wg - 1) & ~(wg - 1)
PaddedSize(size, wg) == BitAnd(size + wg - 1, BitNot(wg - 1))

(***************************************************************************)
(* Buffers.  A buffer is a record: its name in the cl_mem table (or "user" *)
(* for a caller's array, "None" for Python's None), its element type, its  *)
(* allocated length and the identity of the allocation.                    *)
(***************************************************************************)
Buffer(n, t, s, i) == [name |-> n, dtype |-> t, size |-> s, id |-> i]

None == Buffer("None", "", 0, 0)

\* the buffers dec() replaces on growth, byte_offset.py:110-115
RawSideBuffers == {"raw", "mask", "exceptions", "values"}

\* the seven buffers of the instance, byte_offset.py:74-82
BufferNames == RawSideBuffers \cup {"counter", "data_float", "data_int"}

\* the element type of each buffer, byte_offset.py:75-81 and :111-114
DType(n) ==
    CASE n = "raw" -> "int8"
      [] n = "data_float" -> "float32"
      [] OTHER -> "int32"

\* the BufferDescription list of the constructor, byte_offset.py:74-82:
\* the size asked for each buffer
BufferDescriptions(rs, ds) ==
    [n \in BufferNames |->
        IF n \in RawSideBuffers THEN rs
        ELSE IF n = "counter" THEN 1
        ELSE ds]

\* OpenclProcessing.allocate_buffers(buffers, use_array=True): one device
\* array per description, of the described length and element type
allocate_buffers(descr) ==
    [n \in BufferNames |-> Buffer(n, DType(n), descr[n], 0)]

\* the arrays callers hand in as out=: one of float32, one of another type
UserBuffers ==
    { Buffer("user", t, 3, 0) : t \in {"float32", "int32"} }

OutArgs == {None} \cup UserBuffers

(***************************************************************************)
(* Names.  dec() reads local names and module names; a name that is        *)
(* neither bound in the call nor defined by the module raises.             *)
(***************************************************************************)
\* the names the module binds, byte_offset.py:43-55
ModuleGlobals ==
    {"os", "numpy", "ocl", "pyopencl", "BufferDescription",
     "EventDescription", "OpenclProcessing", "logging", "logger",
     "ByteOffset"}

\* the names dec() assigns somewhere in its body, byte_offset.py:101-208:
\* for these an unbound read is an UnboundLocalError, for any other name
\* a NameError
DecLocals ==
    {"self", "raw", "as_float", "out", "events", "len_raw", "raw_size",
     "buffers", "wg", "evt", "nb_exceptions", "nbexc", "copy_results"}

\* the labels of the device operations of dec(), in program order,
\* byte_offset.py:124, 131, 138, 148, 152, 162, 205
Labels ==
    << "copy raw H -> D", "memset mask", "memset counter",
       "mark exceptions", "copy counter D -> H", "treat_exceptions",
       "copy_results" >>

(***************************************************************************)
(* The device side of the codec/byte_offset kernels used by dec().         *)
(***************************************************************************)
\* the content of a device buffer nothing has been written to
Uninitialised == -1

\* the kernel fill_int_mem(array, size, pattern, start_at) run over gsize
\* work items: work item gid writes pattern to array[gid] when
\* start_at <= gid < size (arrays are sequences, gid = index - 1)
fill_int_mem(gsize, array, size, pattern, start_at) ==
    [ i \in 1 .. Len(array) |->
        IF i - 1 < gsize /\ i - 1 >= start_at /\ i - 1 < size
        THEN pattern ELSE array[i] ]

(***************************************************************************)
(* The median-filter test module: its test methods, the environments it    *)
(* can be imported in, the images of the fixture and the filter.           *)
(***************************************************************************)
\* the test methods of TestMedianFilterEngines, in the order the loader
\* sorts them, test_medianfilter.py:58 and :68
TestMethods == {"testCppMedFilt2d", "testOpenCLMedFilt2d"}

\* mutant of KERNEL: a window of three by three
KERNEL3 == << 3, 3 >>

\* KERNEL = (1, 1), test_medianfilter.py:56
KERNEL == << 1, 1 >>

\* the images scipy.misc.ascent() / lena() can stand for: Rows x Cols
\* arrays of small grey levels
Rows == 1 .. 2
Cols == 1 .. 2
Pixels == {0, 1, 5}
Images == [Rows \X Cols -> Pixels]

\* an environment: whether scipy can be imported, whether an OpenCL
\* context can be used, and the image scipy.misc provides
Environments ==
    [scipy : BOOLEAN, ocl : BOOLEAN, image : Images]

\* the positions of the kernel_size window centred on (r, c) that lie
\* inside the image
Window(r, c, kernel_size) ==
    { p \in Rows \X Cols :
        /\ p[1] - r \in -(kernel_size[1] \div 2) .. (kernel_size[1] \div 2)
        /\ p[2] - c \in -(kernel_size[2] \div 2) .. (kernel_size[2] \div 2) }

\* the median of the values image takes on the positions W: the value
\* with at most half of the positions below it and more than half at or
\* below it
Median(image, W) ==
    LET k == Cardinality(W) \div 2
    IN  CHOOSE v \in { image[p] : p \in W } :
            /\ Cardinality({ p \in W : image[p] < v }) <= k
            /\ Cardinality({ p \in W : image[p] <= v }) > k

\* silx.image.medianfilter.medfilt2d(image, kernel_size, conditional,
\* engine): every pixel is replaced by the median of its window; with
\* conditional, only a pixel that is the minimum or the maximum of its
\* window is replaced; the engines 'cpp' and 'opencl' compute the same
\* filter
medfilt2d(image, kernel_size, conditional, engine) ==
    [ p \in Rows \X Cols |->
        LET W == Window(p[1], p[2], kernel_size)
            extreme == \/ \A q \in W : image[q] <= image[p]
                       \/ \A q \in W : image[q] >= image[p]
        IN  IF conditional /\ ~extreme THEN image[p] ELSE Median(image, W) ]

(***************************************************************************)
(* The arguments of the constructor.  The hint block_size is an integer    *)
(* or None (the default, byte_offset.py:59).                               *)
(***************************************************************************)
Hint(v) == [given |-> TRUE, value |-> v]
NoHint == [given |-> FALSE, value |-> 0]

\* the hints a caller passes: those of BlockSizeHints, the limit itself,
\* and none
HintArgs == { Hint(v) : v \in BlockSizeHints \cup {MaxBlockSize} } \cup {NoHint}

\* Python's min(block_size, 128), byte_offset.py:68: of two integers the
\* smaller; with None for block_size, Python 3 raises TypeError (None and
\* int are not ordered) and Python 2 gives None (None sorts before every
\* number)
min(a, b) ==
    IF a.given
    THEN { [raised |-> "none", value |-> Hint(Min(a.value, b))] }
    ELSE { [raised |-> "TypeError", value |-> NoHint],
           [raised |-> "none", value |-> NoHint] }

\* the instance before __init__ has set an attribute
NoAttributes ==
    [block_size |-> NoHint, profile |-> FALSE, raw_size |-> 0, dec_size |-> 0,
     padded_raw_size |-> 0, padded_dec_size |-> 0, buffers |-> {}]

VARIABLES
    \* ---- the ByteOffset instance
    raw_size,         \* self.raw_size
    dec_size,         \* self.dec_size
    padded_raw_size,  \* self.padded_raw_size
    padded_dec_size,  \* self.padded_dec_size
    block_size,       \* self.block_size
    profile,          \* self.profile
    cl_mem,           \* self.cl_mem: name -> buffer
    sem,              \* self.sem: the count of the semaphore
    self_events,      \* self.events: the cumulative profiling log
    allocs,           \* number of reallocations dec() has made
    calls,            \* number of dec() calls started
    longest,          \* history: longest stream copied to the device so far
    counter,          \* the content of cl_mem["counter"] on the device
    frame,            \* per thread, the frame of its dec() call
    \* ---- the PlotWidgetTestCase fixture
    h_pc,             \* position of the test case
    plotAlive,        \* self.plotAlive
    widget,           \* the Qt widget: its lifecycle state and settings
    polls,            \* iterations of the for loop started
    waits,            \* qWait calls made
    waited_ms,        \* milliseconds handed to qWait so far
    errors,           \* logger.error("Plot is still alive") calls made
    trace,            \* history: the steps of the test case, in order
    \* ---- the module test_medianfilter and its test run
    m_pc,             \* position of the import and of the test run
    environment,      \* what the interpreter's environment provides
    scipy,            \* the module global scipy
    ocl,              \* the module global ocl
    IMG,              \* TestMedianFilterEngines.IMG
    skipped,          \* the class and the test methods marked as skipped
    raised,           \* the exception that ended the import, if any
    outcome,          \* per test method, what the runner reports
    m_res,            \* per test method, the array medfilt2d returned
    \* ---- a call of the constructor ByteOffset(...)
    c_pc,             \* position of the constructor call
    c_args,           \* its arguments raw_size, dec_size, block_size, profile
    c_passed,         \* the block_size handed to OpenclProcessing.__init__
    c_self,           \* the attributes of the instance set so far
    c_raised          \* the exception that ended the call, if any

instance == << raw_size, padded_raw_size, cl_mem, allocs >>
config == << dec_size, padded_dec_size, block_size, profile >>

dvars ==
    << instance, config, sem, self_events, calls, longest, counter, frame >>

hvars == << h_pc, plotAlive, widget, polls, waits, waited_ms, errors, trace >>

mvars == << m_pc, environment, scipy, ocl, IMG, skipped, raised, outcome, m_res >>

cvars == << c_pc, c_args, c_passed, c_self, c_raised >>

vars == << dvars, hvars, mvars, cvars >>

(***************************************************************************)
(* The ByteOffset instance.                                                *)
(***************************************************************************)
\* OpenclProcessing.__init__ creates the guard as a semaphore of one permit
SemInit == 1

\* an entry of the per-call event list: EventDescription(name, evt); the
\* event handle is the position of the operation among those the call
\* has put on the queue
EventDescription(name, evt) == [name |-> name, evt |-> evt]

\* an operation put on self.queue: its label and its launch geometry
\* (global size, local size; 0, 0 for a copy)
QueueOp(label, g, l) == [label |-> label, gsize |-> g, lsize |-> l]

\* the positions of a dec() call inside the with block
GuardedPcs ==
    {"grow", "copy_raw", "memset_mask", "memset_counter", "mark_exceptions",
     "copy_counter", "wait", "treat_exceptions", "select_out",
     "copy_results"}

(***************************************************************************)
(* The frame of a dec() call: its position (pc), its arguments (raw is     *)
(* len(raw); as_float; out, rebound at byte_offset.py:192/195), the local  *)
(* names bound so far, the locals len_raw, wg, nbexc and copy_results (a   *)
(* local is read only when bound), the escape sequences 'mark exceptions'  *)
(* found, the blocking waits made, the per-call list events, the           *)
(* operations the call has put on self.queue (issued), and how the call    *)
(* ended (result, retval).                                                 *)
(***************************************************************************)
NoFrame ==
    [pc |-> "idle", raw |-> 0, as_float |-> FALSE, out |-> None,
     bound |-> {}, len_raw |-> 0, wg |-> 0, escapes |-> 0, waits |-> 0,
     nbexc |-> 0,
     copy_results |-> "None", events |-> << >>, issued |-> << >>,
     result |-> "none", retval |-> None]

\* the frame at def dec(self, raw, as_float=False, out=None): events = [],
\* byte_offset.py:101-104
NewFrame(n, af, o) ==
    [NoFrame EXCEPT !.pc = "acquire", !.raw = n, !.as_float = af, !.out = o,
                    !.bound = {"self", "raw", "as_float", "out", "events"}]

\* the call is over: its locals are gone; what it recorded and put on the
\* queue, and its outcome, are kept for observation
Ended(f, res, rv) ==
    [NoFrame EXCEPT !.pc = "done", !.events = f.events, !.issued = f.issued,
                    !.result = res, !.retval = rv]

\* OpenclProcessing.__init__(block_size=..., profile=...): the base class
\* keeps the work-group size and the profiling flag it is given, creates
\* the guard and starts with an empty profiling log
OpenclProcessing_init(bs, prof) ==
    [block_size |-> bs, profile |-> prof, sem |-> SemInit, events |-> << >>]

\* ByteOffset.__init__, byte_offset.py:57-85
ConstructorInit ==
    \E rs \in InitRawSizes, ds \in DecSizes,
       hint \in BlockSizeHints, prof \in BOOLEAN :
        LET base == OpenclProcessing_init(Min(hint, MaxBlockSize), prof)
        IN  /\ block_size = base.block_size
            /\ profile = base.profile
            /\ sem = base.sem
            /\ self_events = base.events
            /\ raw_size = rs
            /\ dec_size = ds
            /\ padded_raw_size = PaddedSize(rs, base.block_size)
            /\ padded_dec_size = PaddedSize(ds, base.block_size)
            /\ cl_mem = allocate_buffers(BufferDescriptions(rs, ds))
            /\ allocs = 0
            /\ calls = 0
            /\ longest = 0
            /\ counter = Uninitialised
            /\ frame = [t \in Threads |-> NoFrame]

\* the widget before _createPlot: no object, nothing set
NoWidget ==
    [state |-> "none", deleteOnClose |-> FALSE, connected |-> FALSE,
     referenced |-> FALSE]

\* the fixture before setUp
HarnessRest ==
    /\ h_pc = "setUp"
    /\ plotAlive = FALSE
    /\ widget = NoWidget
    /\ polls = 0
    /\ waits = 0
    /\ waited_ms = 0
    /\ errors = 0
    /\ trace = << >>

\* the interpreter before test_medianfilter is imported: nothing is bound
ModuleRest ==
    /\ m_pc = "import_scipy"
    /\ environment = "unset"
    /\ scipy = "unbound"
    /\ ocl = "unbound"
    /\ IMG = "unbound"
    /\ skipped = {}
    /\ raised = "none"
    /\ outcome = [t \in TestMethods |-> "none"]
    /\ m_res = [t \in TestMethods |-> "none"]

\* before ByteOffset(...) is called: no argument, no attribute
ConstructorRest ==
    /\ c_pc = "call"
    /\ c_args = [raw_size |-> 0, dec_size |-> 0, block_size |-> NoHint,
                 profile |-> FALSE]
    /\ c_passed = NoHint
    /\ c_self = NoAttributes
    /\ c_raised = "none"

Init == ConstructorInit /\ HarnessRest /\ ModuleRest /\ ConstructorRest

\* Python's lookup of a name read in dec()
Lookup(f, name) ==
    IF name \in f.bound THEN "ok"
    ELSE IF name \in DecLocals THEN "UnboundLocalError"
    ELSE IF name \in ModuleGlobals THEN "ok"
    ELSE "NameError"

\* the names of an expression are read left to right: the first that is
\* not bound raises
RECURSIVE FirstError(_, _)
FirstError(f, names) ==
    IF names = << >> THEN "ok"
    ELSE IF Lookup(f, Head(names)) # "ok" THEN Lookup(f, Head(names))
    ELSE FirstError(f, Tail(names))

\* one device operation, evt = ...(self.queue, ...) followed by
\* events.append(EventDescription(label, evt)): the operation is put on
\* the queue and recorded
Issue(f, label, g, l, next) ==
    [f EXCEPT !.issued = Append(@, QueueOp(label, g, l)),
              !.events = Append(@, EventDescription(label, Len(f.issued) + 1)),
              !.bound = @ \cup {"evt"},
              !.pc = next]

\* the frames a statement can lead to that reads `names` and then launches
\* one device operation: a name is unbound and the statement raises; or the
\* operation is issued and recorded; or the device call fails and raises
Launch(f, names, label, g, l, next) ==
    IF FirstError(f, names) # "ok"
    THEN { Ended(f, FirstError(f, names), None) }
    ELSE { Issue(f, label, g, l, next), Ended(f, "DeviceError", None) }

\* mutant of Move: a call that ends by raising keeps the guard
MoveKeepingGuardOnRaise(t, f) ==
    /\ frame' = [frame EXCEPT ![t] = f]
    /\ sem' = IF f.pc = "done" /\ f.result = "returned" THEN sem + 1 ELSE sem
    /\ UNCHANGED << hvars, mvars, cvars >>

\* thread t moves to frame f; a call that ends leaves the with block and
\* releases the guard
Move(t, f) ==
    /\ frame' = [frame EXCEPT ![t] = f]
    /\ sem' = IF f.pc = "done" THEN sem + 1 ELSE sem
    /\ UNCHANGED << hvars, mvars, cvars >>

\* dec(raw, as_float, out) is called, byte_offset.py:101-104
Call(t) ==
    /\ frame[t].pc \in {"idle", "done"}
    /\ calls < MaxCalls
    /\ \E n \in 1 .. MaxRaw, af \in BOOLEAN, o \in OutArgs :
        frame' = [frame EXCEPT ![t] = NewFrame(n, af, o)]
    /\ calls' = calls + 1
    /\ UNCHANGED << instance, config, sem, self_events, longest, counter,
                    hvars, mvars, cvars >>

\* mutant of Acquire: the body is entered without waiting for the guard
AcquireUnguarded(t) ==
    /\ frame[t].pc = "acquire"
    /\ sem' = sem - 1
    /\ frame' = [frame EXCEPT ![t] =
                    [frame[t] EXCEPT !.pc = "grow", !.len_raw = frame[t].raw,
                                     !.bound = @ \cup {"len_raw"}]]
    /\ UNCHANGED << instance, config, self_events, calls, longest, counter, hvars,
                    mvars, cvars >>

\* with self.sem: and len_raw = numpy.int32(len(raw)), byte_offset.py:105-106
Acquire(t) ==
    /\ frame[t].pc = "acquire"
    /\ sem > 0
    /\ sem' = sem - 1
    /\ frame' = [frame EXCEPT ![t] =
                    [frame[t] EXCEPT !.pc = "grow", !.len_raw = frame[t].raw,
                                     !.bound = @ \cup {"len_raw"}]]
    /\ UNCHANGED << instance, config, self_events, calls, longest, counter, hvars,
                    mvars, cvars >>

\* mutant of NeedsGrowth: >= instead of >
NeedsGrowthOrEqual(len, size) == len >= size

\* byte_offset.py:107: the test that decides a reallocation
NeedsGrowth(len, size) == len > size

\* mutant of GrownBuffers: every array of the table is reallocated
GrownBuffersAll(mem, size, id) ==
    [n \in BufferNames |-> Buffer(n, DType(n), size, id)]

\* mutant of GrownBuffers: only the raw array is reallocated
GrownBuffersRawOnly(mem, size, id) ==
    [n \in BufferNames |->
        IF n = "raw" THEN Buffer(n, DType(n), size, id) ELSE mem[n]]

\* byte_offset.py:110-115 and :119: four fresh arrays of the new length
\* replace the raw-side entries of the table; the other entries stay
GrownBuffers(mem, size, id) ==
    [n \in BufferNames |->
        IF n \in RawSideBuffers THEN Buffer(n, DType(n), size, id)
        ELSE mem[n]]

\* if len_raw > self.raw_size: ..., byte_offset.py:107-119: the four
\* allocations can fail on the device; the assignments that follow cannot
Grow(t) ==
    /\ frame[t].pc = "grow"
    /\ IF NeedsGrowth(frame[t].len_raw, raw_size)
       THEN \E ok \in BOOLEAN :
            IF ok
            THEN /\ cl_mem' = GrownBuffers(cl_mem, frame[t].raw, allocs + 1)
                 /\ allocs' = allocs + 1
                 /\ raw_size' = frame[t].raw
                 /\ padded_raw_size' = PaddedSize(frame[t].raw, block_size)
                 /\ Move(t, [frame[t] EXCEPT
                                !.pc = "copy_raw", !.wg = block_size,
                                !.bound = @ \cup {"raw_size", "buffers", "wg"}])
            ELSE /\ Move(t, Ended(frame[t], "DeviceError", None))
                 /\ UNCHANGED instance
       ELSE /\ Move(t, [frame[t] EXCEPT !.pc = "copy_raw"])
            /\ UNCHANGED instance
    /\ UNCHANGED << config, self_events, calls, longest, counter >>

\* pyopencl.enqueue_copy(self.queue, self.cl_mem["raw"].data, raw),
\* byte_offset.py:121-124
CopyRaw(t) ==
    /\ frame[t].pc = "copy_raw"
    /\ \E f \in Launch(frame[t], << "pyopencl", "self", "raw" >>,
                       "copy raw H -> D", 0, 0, "memset_mask") :
        /\ Move(t, f)
        /\ longest' = IF f.pc = "memset_mask" /\ frame[t].raw > longest
                      THEN frame[t].raw ELSE longest
    /\ UNCHANGED << instance, config, self_events, calls, counter >>

\* self.kernels.fill_int_mem(self.queue, (self.padded_raw_size,), (wg,), ...),
\* byte_offset.py:126-131
FillMask(t) ==
    /\ frame[t].pc = "memset_mask"
    /\ \E f \in Launch(frame[t], << "self", "wg", "numpy" >>, "memset mask",
                       padded_raw_size, frame[t].wg, "memset_counter") :
        Move(t, f)
    /\ UNCHANGED << instance, config, self_events, calls, longest, counter >>

\* mutant of FillCounter: the pattern written is 1
FillCounterWithOne(t) ==
    /\ frame[t].pc = "memset_counter"
    /\ \E f \in Launch(frame[t], << "self", "numpy" >>, "memset counter",
                       1, 1, "mark_exceptions") :
        /\ Move(t, f)
        /\ counter' = IF f.pc = "mark_exceptions"
                      THEN fill_int_mem(1, << counter >>, 1, 1, 0)[1]
                      ELSE counter
    /\ UNCHANGED << instance, config, self_events, calls, longest >>

\* self.kernels.fill_int_mem(self.queue, (1,), (1,),
\* self.cl_mem["counter"].data, numpy.int32(1), numpy.int32(0),
\* numpy.int32(0)), byte_offset.py:133-138
FillCounter(t) ==
    /\ frame[t].pc = "memset_counter"
    /\ \E f \in Launch(frame[t], << "self", "numpy" >>, "memset counter",
                       1, 1, "mark_exceptions") :
        /\ Move(t, f)
        /\ counter' = IF f.pc = "mark_exceptions"
                      THEN fill_int_mem(1, << counter >>, 1, 0, 0)[1]
                      ELSE counter
    /\ UNCHANGED << instance, config, self_events, calls, longest >>

\* self.kernels.mark_exceptions(self.queue, (self.padded_raw_size,), (wg,),
\* ..., self.cl_mem["counter"].data, ...), byte_offset.py:140-148: the
\* kernel increments the counter once for every escape sequence it finds
\* in the stream
MarkExceptions(t) ==
    /\ frame[t].pc = "mark_exceptions"
    /\ \E f \in Launch(frame[t], << "self", "wg", "len_raw" >>,
                       "mark exceptions", padded_raw_size, frame[t].wg,
                       "copy_counter") :
        IF f.pc = "copy_counter"
        THEN \E n \in 0 .. MaxExc :
                /\ Move(t, [f EXCEPT !.escapes = n])
                /\ counter' = counter + n
        ELSE /\ Move(t, f)
             /\ UNCHANGED counter
    /\ UNCHANGED << instance, config, self_events, calls, longest >>

\* nb_exceptions = numpy.empty(...); pyopencl.enqueue_copy(self.queue,
\* nb_exceptions, self.cl_mem["counter"].data), byte_offset.py:149-152
CopyCounter(t) ==
    /\ frame[t].pc = "copy_counter"
    /\ \E f \in Launch(frame[t], << "numpy", "pyopencl", "self" >>,
                       "copy counter D -> H", 0, 0, "wait") :
        Move(t, [f EXCEPT !.bound = IF f.pc = "wait"
                                    THEN @ \cup {"nb_exceptions"} ELSE @])
    /\ UNCHANGED << instance, config, self_events, calls, longest, counter >>

\* evt.wait(); nbexc = nb_exceptions[0], byte_offset.py:153-154: the host
\* blocks until the copy is done and reads the value the device holds in
\* counter, or the wait reports a device failure
WaitCounter(t) ==
    /\ frame[t].pc = "wait"
    /\ \E f \in { [frame[t] EXCEPT !.pc = "treat_exceptions",
                                   !.waits = @ + 1,
                                   !.nbexc = counter,
                                   !.bound = @ \cup {"nbexc"}],
                  Ended(frame[t], "DeviceError", None) } :
        Move(t, f)
    /\ UNCHANGED << instance, config, self_events, calls, longest, counter >>

\* self.kernels.treat_exceptions(self.queue, (nbexc,), (1,), ...),
\* byte_offset.py:155-162
TreatExceptions(t) ==
    /\ frame[t].pc = "treat_exceptions"
    /\ \E f \in Launch(frame[t], << "self", "nbexc", "len_raw" >>,
                       "treat_exceptions", frame[t].nbexc, 1, "select_out") :
        Move(t, f)
    /\ UNCHANGED << instance, config, self_events, calls, longest, counter >>

\* the choice of the output buffer and of the copy kernel,
\* byte_offset.py:185-196
Selected(f) ==
    IF f.out # None
    THEN [f EXCEPT !.copy_results = IF f.out.dtype = "float32"
                                    THEN "copy_result_float"
                                    ELSE "copy_result_int"]
    ELSE IF f.as_float
         THEN [f EXCEPT !.out = cl_mem["data_float"],
                        !.copy_results = "copy_result_float"]
         ELSE [f EXCEPT !.out = cl_mem["data_int"],
                        !.copy_results = "copy_result_int"]

SelectOut(t) ==
    /\ frame[t].pc = "select_out"
    /\ Move(t, [Selected(frame[t]) EXCEPT !.pc = "copy_results",
                                          !.bound = @ \cup {"copy_results"}])
    /\ UNCHANGED << instance, config, self_events, calls, longest, counter >>

\* the names byte_offset.py:199-204 reads, in the order Python evaluates
\* them
CopyResultsNames ==
    << "copy_results", "self", "wg", "cumsummed_d", "indexes_d", "numpy",
       "size_out", "out" >>

\* copy_results(self.queue, self.padded_dec_size, (wg,), cumsummed_d.data,
\* indexes_d.data, numpy.int32(size_out), out.data); the event is appended;
\* if self.profile: self.events += events; the with block ends; return out,
\* byte_offset.py:199-208
CopyResults(t) ==
    /\ frame[t].pc = "copy_results"
    /\ \E f \in Launch(frame[t], CopyResultsNames, "copy_results",
                       padded_dec_size, frame[t].wg, "return") :
        IF f.pc = "return"
        THEN /\ self_events' = IF profile THEN self_events \o f.events
                               ELSE self_events
             /\ Move(t, Ended(f, "returned", f.out))
        ELSE /\ Move(t, f)
             /\ UNCHANGED self_events
    /\ UNCHANGED << instance, config, calls, longest, counter >>

Next ==
    \/ \E t \in Threads : Call(t)
    \/ \E t \in Threads : Acquire(t)
    \/ \E t \in Threads : Grow(t)
    \/ \E t \in Threads : CopyRaw(t)
    \/ \E t \in Threads : FillMask(t)
    \/ \E t \in Threads : FillCounter(t)
    \/ \E t \in Threads : MarkExceptions(t)
    \/ \E t \in Threads : CopyCounter(t)
    \/ \E t \in Threads : WaitCounter(t)
    \/ \E t \in Threads : TreatExceptions(t)
    \/ \E t \in Threads : SelectOut(t)
    \/ \E t \in Threads : CopyResults(t)

Spec == Init /\ [][Next]_vars

\* the steps of thread t's call inside the with block
Body(t) ==
    \/ Grow(t)
    \/ CopyRaw(t)
    \/ FillMask(t)
    \/ FillCounter(t)
    \/ MarkExceptions(t)
    \/ CopyCounter(t)
    \/ WaitCounter(t)
    \/ TreatExceptions(t)
    \/ SelectOut(t)
    \/ CopyResults(t)

\* the threads keep running: a call inside the with block takes its next
\* step (no statement of the body blocks for ever), and a call that waits
\* for the guard gets it if the guard is free again and again
SpecFair ==
    /\ Spec
    /\ \A t \in Threads : WF_vars(Body(t)) /\ SF_vars(Acquire(t))

(***************************************************************************)
(* The PlotWidgetTestCase fixture, utils.py:45-83.  One test case runs     *)
(* setUp, the test and tearDown on the GUI thread.  The widget is          *)
(* destroyed by the toolkit, not by the fixture: once it is closed with    *)
(* WA_DeleteOnClose set, or once its last reference is dropped, the        *)
(* toolkit may delete it whenever events are processed, or never.          *)
(***************************************************************************)
HStep(name, next) ==
    /\ trace' = Append(trace, name)
    /\ h_pc' = next

\* __onPlotDestroyed, utils.py:65-66: the value it gives self.plotAlive
__onPlotDestroyed == FALSE

\* the widget is due for deletion: it was closed with WA_DeleteOnClose
\* set, or its last reference was dropped
Due(w) ==
    /\ w.state \notin {"none", "destroyed"}
    /\ (w.state = "closed" /\ w.deleteOnClose) \/ ~w.referenced

\* what the toolkit can do to the widget and to plotAlive when it gets
\* control: nothing, or, if the widget is due for deletion, delete it and
\* emit destroyed, which runs the callback if it is connected
ToolkitRuns(w, alive) ==
    { << w, alive >> } \cup
    IF Due(w)
    THEN { << [w EXCEPT !.state = "destroyed"],
              IF w.connected THEN __onPlotDestroyed ELSE alive >> }
    ELSE { }

\* TestCaseQt.qWait(ms): the event loop runs for ms milliseconds, then
\* the call returns
qWait(w, alive) == ToolkitRuns(w, alive)

\* super().setUp(); self.plot = self._createPlot(), utils.py:58-59
SetUpCreate ==
    /\ h_pc = "setUp"
    /\ widget' = [widget EXCEPT !.state = "created", !.referenced = TRUE]
    /\ HStep("_createPlot", "show")
    /\ UNCHANGED << plotAlive, polls, waits, waited_ms, errors, dvars, mvars, cvars >>

\* self.plot.show(), utils.py:60
SetUpShow ==
    /\ h_pc = "show"
    /\ widget' = [widget EXCEPT !.state = "shown"]
    /\ HStep("show", "alive")
    /\ UNCHANGED << plotAlive, polls, waits, waited_ms, errors, dvars, mvars, cvars >>

\* mutant of SetUpAlive: the click follows without the exposure wait
SetUpAliveThenClick ==
    /\ h_pc = "alive"
    /\ plotAlive' = TRUE
    /\ HStep("plotAlive", "click")
    /\ UNCHANGED << widget, polls, waits, waited_ms, errors, dvars, mvars, cvars >>

\* self.plotAlive = True, utils.py:61
SetUpAlive ==
    /\ h_pc = "alive"
    /\ plotAlive' = TRUE
    /\ HStep("plotAlive", "expose")
    /\ UNCHANGED << widget, polls, waits, waited_ms, errors, dvars, mvars, cvars >>

\* self.qWaitForWindowExposed(self.plot), utils.py:62
SetUpExpose ==
    /\ h_pc = "expose"
    /\ widget' = [widget EXCEPT !.state = "exposed"]
    /\ HStep("qWaitForWindowExposed", "click")
    /\ UNCHANGED << plotAlive, polls, waits, waited_ms, errors, dvars, mvars, cvars >>

\* TestCaseQt.mouseClick(self, self.plot, button=LeftButton, pos=(0, 0)),
\* utils.py:63; the test method then runs
SetUpClick ==
    /\ h_pc = "click"
    /\ HStep("mouseClick", "tearDown")
    /\ UNCHANGED << plotAlive, widget, polls, waits, waited_ms, errors, dvars, mvars, cvars >>

\* self.qapp.processEvents(), utils.py:81
TearDownFlush ==
    /\ h_pc = "tearDown"
    /\ \E r \in ToolkitRuns(widget, plotAlive) :
        /\ widget' = r[1]
        /\ plotAlive' = r[2]
    /\ HStep("processEvents", "setAttribute")
    /\ UNCHANGED << polls, waits, waited_ms, errors, dvars, mvars, cvars >>

\* self.plot.setAttribute(qt.Qt.WA_DeleteOnClose), utils.py:69
CloseSetAttribute ==
    /\ h_pc = "setAttribute"
    /\ widget' = [widget EXCEPT !.deleteOnClose = TRUE]
    /\ HStep("setAttribute", "connect")
    /\ UNCHANGED << plotAlive, polls, waits, waited_ms, errors, dvars, mvars, cvars >>

\* self.plot.destroyed.connect(self.__onPlotDestroyed), utils.py:70
CloseConnect ==
    /\ h_pc = "connect"
    /\ widget' = [widget EXCEPT !.connected = TRUE]
    /\ HStep("connect", "close")
    /\ UNCHANGED << plotAlive, polls, waits, waited_ms, errors, dvars, mvars, cvars >>

\* self.plot.close(), utils.py:71: the close is accepted and the widget
\* is due for deletion, or the widget refuses it and stays
CloseClose ==
    /\ h_pc = "close"
    /\ \E accepted \in BOOLEAN :
        widget' = IF accepted THEN [widget EXCEPT !.state = "closed"] ELSE widget
    /\ HStep("close", "del")
    /\ UNCHANGED << plotAlive, polls, waits, waited_ms, errors, dvars, mvars, cvars >>

\* del self.plot, utils.py:72: the reference is dropped; the toolkit may
\* delete the widget on the spot
CloseDel ==
    /\ h_pc = "del"
    /\ \E r \in ToolkitRuns([widget EXCEPT !.referenced = FALSE], plotAlive) :
        /\ widget' = r[1]
        /\ plotAlive' = r[2]
    /\ HStep("del", "for")
    /\ UNCHANGED << polls, waits, waited_ms, errors, dvars, mvars, cvars >>

\* mutant of PollFor: the loop has no budget
PollForever ==
    /\ h_pc = "for"
    /\ polls' = polls + 1
    /\ h_pc' = "if"
    /\ UNCHANGED << plotAlive, widget, waits, waited_ms, errors, trace, dvars, mvars, cvars >>

\* for _ in range(100): the next iteration starts, or the range is
\* exhausted and the else clause runs, utils.py:73 and :77
PollFor ==
    /\ h_pc = "for"
    /\ IF polls < PollBudget
       THEN /\ polls' = polls + 1
            /\ h_pc' = "if"
       ELSE /\ polls' = polls
            /\ h_pc' = "else"
    /\ UNCHANGED << plotAlive, widget, waits, waited_ms, errors, trace, dvars, mvars, cvars >>

\* if not self.plotAlive: break, utils.py:74-75 (break skips the else
\* clause)
PollIf ==
    /\ h_pc = "if"
    /\ h_pc' = IF ~plotAlive THEN "super_tearDown" ELSE "qWait"
    /\ UNCHANGED << plotAlive, widget, polls, waits, waited_ms, errors, trace,
                    dvars, mvars, cvars >>

\* self.qWait(10), utils.py:76: events are processed for 10 ms
PollWait ==
    /\ h_pc = "qWait"
    /\ \E r \in qWait(widget, plotAlive) :
        /\ widget' = r[1]
        /\ plotAlive' = r[2]
    /\ waits' = waits + 1
    /\ waited_ms' = waited_ms + WaitMs
    /\ h_pc' = "for"
    /\ UNCHANGED << polls, errors, trace, dvars, mvars, cvars >>

\* else: logger.error("Plot is still alive"), utils.py:77-78
PollElse ==
    /\ h_pc = "else"
    /\ errors' = errors + 1
    /\ HStep("error", "super_tearDown")
    /\ UNCHANGED << plotAlive, widget, polls, waits, waited_ms, dvars, mvars, cvars >>

\* super(PlotWidgetTestCase, self).tearDown(), utils.py:83
TearDownSuper ==
    /\ h_pc = "super_tearDown"
    /\ HStep("super_tearDown", "done")
    /\ UNCHANGED << plotAlive, widget, polls, waits, waited_ms, errors, dvars, mvars, cvars >>

HNext ==
    \/ SetUpCreate
    \/ SetUpShow
    \/ SetUpAlive
    \/ SetUpExpose
    \/ SetUpClick
    \/ TearDownFlush
    \/ CloseSetAttribute
    \/ CloseConnect
    \/ CloseClose
    \/ CloseDel
    \/ PollFor
    \/ PollIf
    \/ PollWait
    \/ PollElse
    \/ TearDownSuper

\* the GUI thread keeps running: every step of the test case that can be
\* taken is taken
SpecHarness == Init /\ [][HNext]_vars /\ WF_vars(HNext)

(***************************************************************************)
(* The module test_medianfilter, test_medianfilter.py:33-83: its import    *)
(* (the module body runs top to bottom, the class body included), the      *)
(* suite builder and the run of the two test methods by the unittest       *)
(* runner.                                                                 *)
(***************************************************************************)
\* try: import scipy; import scipy.misc; import scipy.ndimage
\* except: scipy = None, test_medianfilter.py:36-41
ImportScipy ==
    /\ m_pc = "import_scipy"
    /\ \E e \in Environments :
        /\ environment' = e
        /\ scipy' = IF e.scipy THEN "module" ELSE "None"
    /\ m_pc' = "import_ocl"
    /\ UNCHANGED << ocl, IMG, skipped, raised, outcome, m_res, dvars, hvars, cvars >>

\* from silx.opencl.common import ocl, test_medianfilter.py:43: ocl is
\* None when no OpenCL context can be used
ImportOcl ==
    /\ m_pc = "import_ocl"
    /\ ocl' = IF environment.ocl THEN "OpenCL" ELSE "None"
    /\ m_pc' = "class_body"
    /\ UNCHANGED << environment, scipy, IMG, skipped, raised, outcome, m_res,
                    dvars, hvars, cvars >>

\* obj.misc for the module global obj: None has no attribute
HasAttribute(obj) == obj # "None"

\* unittest.skipUnless(condition, reason) applied to `name`: the marks
\* after the decorator has run
skipUnless(condition, name, marks) ==
    IF condition # "None" THEN marks ELSE marks \cup {name}

\* the class body, test_medianfilter.py:51-75, run when the class
\* statement is executed: the argument scipy.misc of hasattr is evaluated
\* first; IMG is scipy.misc.ascent() or scipy.misc.lena(); KERNEL; the
\* decorator of line 67 is applied to testOpenCLMedFilt2d
ClassBody ==
    /\ m_pc = "class_body"
    /\ IF HasAttribute(scipy)
       THEN /\ IMG' = environment.image
            /\ skipped' = skipUnless(ocl, "testOpenCLMedFilt2d", skipped)
            /\ m_pc' = "class_decorator"
            /\ UNCHANGED raised
       ELSE /\ raised' = "AttributeError"
            /\ m_pc' = "import_failed"
            /\ UNCHANGED << IMG, skipped >>
    /\ UNCHANGED << environment, scipy, ocl, outcome, m_res, dvars, hvars, cvars >>

\* @unittest.skipUnless(scipy, "scipy not available"),
\* test_medianfilter.py:46: applied to the class once its body has run
ClassDecorator ==
    /\ m_pc = "class_decorator"
    /\ skipped' = skipUnless(scipy, "TestMedianFilterEngines", skipped)
    /\ m_pc' = "suite"
    /\ UNCHANGED << environment, scipy, ocl, IMG, raised, outcome, m_res,
                    dvars, hvars, cvars >>

\* suite(), test_medianfilter.py:78-83: the loader collects the test
\* methods of the class; the runner takes them in the order of their names
Suite ==
    /\ m_pc = "suite"
    /\ m_pc' = "testCppMedFilt2d"
    /\ UNCHANGED << environment, scipy, ocl, IMG, skipped, raised, outcome,
                    m_res, dvars, hvars, cvars >>

\* the runner takes a test method: a method of a skipped class, or a
\* skipped method, is reported as skipped and its body does not run
IsSkipped(name) == "TestMedianFilterEngines" \in skipped \/ name \in skipped

\* self.assertTrue(numpy.array_equal(res, TestMedianFilterEngines.IMG)),
\* test_medianfilter.py:65 and :75
assertArrayEqual(r, img) == IF r = img THEN "passed" ELSE "failed"

\* testCppMedFilt2d, test_medianfilter.py:58-65
testCppMedFilt2d ==
    /\ m_pc = "testCppMedFilt2d"
    /\ IF IsSkipped("testCppMedFilt2d")
       THEN /\ outcome' = [outcome EXCEPT !["testCppMedFilt2d"] = "skipped"]
            /\ UNCHANGED m_res
       ELSE LET r == medfilt2d(IMG, KERNEL, FALSE, "cpp")
            IN  /\ m_res' = [m_res EXCEPT !["testCppMedFilt2d"] = r]
                /\ outcome' = [outcome EXCEPT !["testCppMedFilt2d"] =
                                  assertArrayEqual(r, IMG)]
    /\ m_pc' = "testOpenCLMedFilt2d"
    /\ UNCHANGED << environment, scipy, ocl, IMG, skipped, raised, dvars,
                    hvars, cvars >>

\* testOpenCLMedFilt2d, test_medianfilter.py:67-75
testOpenCLMedFilt2d ==
    /\ m_pc = "testOpenCLMedFilt2d"
    /\ IF IsSkipped("testOpenCLMedFilt2d")
       THEN /\ outcome' = [outcome EXCEPT !["testOpenCLMedFilt2d"] = "skipped"]
            /\ UNCHANGED m_res
       ELSE LET r == medfilt2d(IMG, KERNEL, FALSE, "opencl")
            IN  /\ m_res' = [m_res EXCEPT !["testOpenCLMedFilt2d"] = r]
                /\ outcome' = [outcome EXCEPT !["testOpenCLMedFilt2d"] =
                                  assertArrayEqual(r, IMG)]
    /\ m_pc' = "finished"
    /\ UNCHANGED << environment, scipy, ocl, IMG, skipped, raised, dvars,
                    hvars, cvars >>

MNext ==
    \/ ImportScipy
    \/ ImportOcl
    \/ ClassBody
    \/ ClassDecorator
    \/ Suite
    \/ testCppMedFilt2d
    \/ testOpenCLMedFilt2d

SpecMedian == Init /\ [][MNext]_vars

(***************************************************************************)
(* A call ByteOffset(raw_size, dec_size, block_size=..., profile=...),     *)
(* byte_offset.py:57-85, statement by statement.                           *)
(***************************************************************************)
\* the call and the evaluation of the arguments of
\* OpenclProcessing.__init__, byte_offset.py:66-68: min(block_size, 128)
Ctor_Min ==
    /\ c_pc = "call"
    /\ \E rs \in InitRawSizes, ds \in DecSizes, hint \in HintArgs,
          prof \in BOOLEAN :
        /\ c_args' = [raw_size |-> rs, dec_size |-> ds, block_size |-> hint,
                      profile |-> prof]
        /\ \E r \in min(hint, MaxBlockSize) :
            IF r.raised = "none"
            THEN /\ c_passed' = r.value
                 /\ c_pc' = "base"
                 /\ UNCHANGED c_raised
            ELSE /\ c_raised' = r.raised
                 /\ c_pc' = "raised"
                 /\ UNCHANGED c_passed
    /\ UNCHANGED << c_self, dvars, hvars, mvars >>

\* OpenclProcessing.__init__(self, ..., block_size=..., profile=profile),
\* byte_offset.py:66-68: the base class keeps what it is given
Ctor_Base ==
    /\ c_pc = "base"
    /\ c_self' = [c_self EXCEPT !.block_size = c_passed,
                                !.profile = c_args.profile]
    /\ c_pc' = "sizes"
    /\ UNCHANGED << c_args, c_passed, c_raised, dvars, hvars, mvars >>

\* wg = self.block_size and the four sizes, byte_offset.py:69-73:
\* self.raw_size + wg raises TypeError when wg is None
Ctor_Sizes ==
    /\ c_pc = "sizes"
    /\ IF c_self.block_size.given
       THEN /\ c_self' =
                [c_self EXCEPT
                    !.raw_size = c_args.raw_size,
                    !.dec_size = c_args.dec_size,
                    !.padded_raw_size =
                        PaddedSize(c_args.raw_size, c_self.block_size.value),
                    !.padded_dec_size =
                        PaddedSize(c_args.dec_size, c_self.block_size.value)]
            /\ c_pc' = "buffers"
            /\ UNCHANGED c_raised
       ELSE /\ c_raised' = "TypeError"
            /\ c_pc' = "raised"
            /\ UNCHANGED c_self
    /\ UNCHANGED << c_args, c_passed, dvars, hvars, mvars >>

\* the buffer descriptions, allocate_buffers, compile_kernels and the
\* registration of scan, byte_offset.py:74-85
Ctor_Buffers ==
    /\ c_pc = "buffers"
    /\ c_self' = [c_self EXCEPT !.buffers = BufferNames]
    /\ c_pc' = "constructed"
    /\ UNCHANGED << c_args, c_passed, c_raised, dvars, hvars, mvars >>

CNext ==
    \/ Ctor_Min
    \/ Ctor_Base
    \/ Ctor_Sizes
    \/ Ctor_Buffers

SpecConstructor == Init /\ [][CNext]_vars

(***************************************************************************)
(* Properties of ByteOffset.dec, checked under Spec.                       *)
(***************************************************************************)
\* the labels a call has recorded, and those it has put on the queue
EventNames(f) == [i \in 1 .. Len(f.events) |-> f.events[i].name]
IssuedLabels(f) == [i \in 1 .. Len(f.issued) |-> f.issued[i].label]

IsPrefix(a, b) == Len(a) <= Len(b) /\ \A i \in 1 .. Len(a) : a[i] = b[i]

\* the calls between acquiring and releasing the guard
Holders == { t \in Threads : frame[t].pc \in GuardedPcs }

IsPowerOfTwo(n) == n > 0 /\ BitAnd(n, n - 1) = 0

\* C1: every dec call that meets no device failure runs all the stages
\* through 'copy_results' and returns its output buffer; a call raises only
\* on a device failure.
C1_DecReturnsUnlessDeviceFails ==
    \A t \in Threads :
        frame[t].pc = "done" =>
            \/ frame[t].result = "DeviceError"
            \/ /\ frame[t].result = "returned"
               /\ frame[t].retval # None
               /\ Len(frame[t].events) = Len(Labels)

\* C2: at most one call is between acquiring and releasing the guard, and
\* every write of raw_size, padded_raw_size and the buffer table and every
\* operation put on the queue is made by the one call that holds the guard.
C2_OneDecodeInFlight ==
    /\ [](Cardinality(Holders) <= 1)
    /\ [][ ( \/ instance' # instance
             \/ \E t \in Threads :
                    Len(frame'[t].issued) > Len(frame[t].issued) )
           => \E t \in Threads :
                /\ Holders = {t}
                /\ \A u \in Threads \ {t} : frame'[u] = frame[u] ]_vars

\* C2 witness: one call holds the guard and has grown the buffers while the
\* other waits for the guard.
C2_Witness ==
    \E t, u \in Threads :
        /\ t # u
        /\ frame[t].pc = "memset_mask"
        /\ allocs > 0
        /\ frame[u].pc = "acquire"
        /\ sem = 0

\* C3: within one call the operations are issued and recorded in the order
\* of Labels, each recorded once right after it is issued, and a call that
\* meets no device failure issues and records all seven.
C3_SevenOperationsInOrder ==
    \A t \in Threads :
        /\ IsPrefix(EventNames(frame[t]), Labels)
        /\ IssuedLabels(frame[t]) = EventNames(frame[t])
        /\ \A i \in 1 .. Len(frame[t].events) : frame[t].events[i].evt = i
        /\ (frame[t].pc = "done" /\ frame[t].result # "DeviceError")
               => EventNames(frame[t]) = Labels

\* C4: when 'copy_results' is about to be launched, the double scan has
\* been invoked after 'treat_exceptions' in the same call and has produced
\* the buffers and the size that 'copy_results' reads.
C4_ScanBeforeCopyResults ==
    \A t \in Threads :
        frame[t].pc = "copy_results" =>
            /\ Len(frame[t].issued) > 0
            /\ frame[t].issued[Len(frame[t].issued)].label = "scan"
            /\ {"cumsummed_d", "indexes_d", "size_out"} \subseteq frame[t].bound

\* C5: a supplied out is kept and decides the kernel by its element type;
\* without out, as_float decides between data_float and data_int; the call
\* returns the buffer chosen.
C5_OutputSelection ==
    [][ \A t \in Threads :
          /\ (frame[t].pc = "select_out" /\ frame'[t].pc = "copy_results") =>
                IF frame[t].out # None
                THEN /\ frame'[t].out = frame[t].out
                     /\ frame'[t].copy_results =
                            IF frame[t].out.dtype = "float32"
                            THEN "copy_result_float" ELSE "copy_result_int"
                ELSE IF frame[t].as_float
                     THEN /\ frame'[t].out = cl_mem["data_float"]
                          /\ frame'[t].copy_results = "copy_result_float"
                     ELSE /\ frame'[t].out = cl_mem["data_int"]
                          /\ frame'[t].copy_results = "copy_result_int"
          /\ ( /\ frame[t].pc = "copy_results"
               /\ frame'[t].pc = "done"
               /\ frame'[t].result # "DeviceError" ) =>
                /\ frame'[t].result = "returned"
                /\ frame'[t].retval = frame[t].out ]_vars

\* a step reallocates the raw-side buffers
Reallocated == \E n \in RawSideBuffers : cl_mem'[n].id # cl_mem[n].id

\* C6: raw_size never decreases; the raw-side buffers are reallocated
\* exactly when a call passes the test of line 107 with len(raw) > raw_size
\* (and the allocation succeeds), and raw_size is then len(raw); at every
\* 'copy raw H -> D' the raw, mask, values and exceptions buffers are at
\* least as long as the stream and as every stream copied before.
C6_RawCapacityOnlyGrows ==
    /\ [](\A t \in Threads :
            frame[t].pc = "copy_raw" =>
                \A n \in RawSideBuffers :
                    /\ cl_mem[n].size >= frame[t].len_raw
                    /\ cl_mem[n].size >= longest)
    /\ [][ /\ raw_size' >= raw_size
           /\ Reallocated <=>
                \E t \in Threads :
                    /\ frame[t].pc = "grow"
                    /\ frame'[t].pc = "copy_raw"
                    /\ frame[t].len_raw > raw_size
           /\ Reallocated =>
                \E t \in Threads :
                    /\ frame[t].pc = "grow"
                    /\ raw_size' = frame[t].len_raw
                    /\ \A n \in RawSideBuffers :
                          cl_mem'[n].size = frame[t].len_raw ]_vars

\* C6 witness: after a growth, a shorter stream is about to be copied.
C6_Witness ==
    \E t \in Threads :
        /\ frame[t].pc = "copy_raw"
        /\ allocs > 0
        /\ frame[t].len_raw < longest

\* C7: the padded sizes are the sizes rounded by the formula, and for a
\* power-of-two work-group size each is >= its size, a multiple of the
\* work-group size, and less than one work-group above its size.
C7_PaddedSizes ==
    /\ padded_raw_size = BitAnd(raw_size + block_size - 1, BitNot(block_size - 1))
    /\ padded_dec_size = BitAnd(dec_size + block_size - 1, BitNot(block_size - 1))
    /\ IsPowerOfTwo(block_size) =>
        /\ padded_raw_size >= raw_size
        /\ padded_raw_size % block_size = 0
        /\ padded_raw_size - raw_size < block_size
        /\ padded_dec_size >= dec_size
        /\ padded_dec_size % block_size = 0
        /\ padded_dec_size - dec_size < block_size

\* C7 witness: after a growth, with a power-of-two work-group size, the
\* new raw_size is no multiple of it and the padded size lies above it.
C7_Witness ==
    /\ allocs > 0
    /\ IsPowerOfTwo(block_size)
    /\ padded_raw_size > raw_size

\* the buffers C8 is about
SizedBuffers == RawSideBuffers \cup {"data_float", "data_int"}

C9_EventLogRetention ==
    [][ \A t \in Threads :
          ( /\ frame[t].pc \in GuardedPcs
            /\ frame'[t].pc = "done"
            /\ frame'[t].result # "DeviceError" ) =>
              self_events' = IF profile
                             THEN self_events \o frame'[t].events
                             ELSE self_events ]_vars

\* when thread t's call takes its step from position pc, it launches
\* `label` with global size g and local size l unless the device fails
LaunchesWith(t, pc, label, g, l) ==
    ( /\ frame[t].pc = pc
      /\ frame'[t] # frame[t]
      /\ frame'[t].result # "DeviceError" ) =>
        /\ Len(frame'[t].issued) = Len(frame[t].issued) + 1
        /\ frame'[t].issued[Len(frame'[t].issued)] = QueueOp(label, g, l)

\* C14: in every call, grown or not, 'memset mask' and 'mark exceptions'
\* are launched with global size padded_raw_size and local size
\* block_size, and 'copy_results' with global size padded_dec_size and
\* local size block_size.
C14_LaunchGeometry ==
    [][ \A t \in Threads :
          /\ LaunchesWith(t, "memset_mask", "memset mask",
                          padded_raw_size, block_size)
          /\ LaunchesWith(t, "mark_exceptions", "mark exceptions",
                          padded_raw_size, block_size)
          /\ LaunchesWith(t, "copy_results", "copy_results",
                          padded_dec_size, block_size) ]_vars

\* thread t's call takes the step from position `from` to position `to`
Steps(t, from, to) == frame[t].pc = from /\ frame'[t].pc = to

EndsWithoutDeviceFailure(t) ==
    /\ frame[t].pc \in GuardedPcs
    /\ frame'[t].pc = "done"
    /\ frame'[t].result # "DeviceError"

\* C16: a call makes exactly one blocking wait, on the event of 'copy
\* counter D -> H'; 'treat_exceptions' is launched after that wait with a
\* global size equal to the value read back in the same call, zero
\* included; no other step waits.
C16_OneBlockingWait ==
    [][ \A t \in Threads :
          /\ EndsWithoutDeviceFailure(t) => frame[t].waits = 1
          /\ frame'[t].waits > frame[t].waits =>
                /\ frame[t].pc = "wait"
                /\ frame[t].waits = 0
                /\ frame[t].issued[Len(frame[t].issued)].label
                      = "copy counter D -> H"
                /\ frame'[t].nbexc = counter
          /\ LaunchesWith(t, "treat_exceptions", "treat_exceptions",
                          frame[t].nbexc, 1)
          /\ Steps(t, "treat_exceptions", "select_out") =>
                frame[t].waits = 1 ]_vars

\* the entries of the table that are not on the raw side
OtherBuffers == BufferNames \ RawSideBuffers

\* C17: a step changes the raw-side state only as the growth of a call
\* with len(raw) > raw_size: the four raw-side entries are replaced and
\* raw_size and padded_raw_size updated; the entries counter, data_float
\* and data_int, dec_size and padded_dec_size are changed by no step, so
\* the decompressed capacity is the one allocated at construction.
C17_GrowthIsRawSideOnly ==
    /\ [](\A n \in {"data_float", "data_int"} :
            cl_mem[n].size = dec_size /\ cl_mem[n].id = 0)
    /\ [][ /\ \A n \in OtherBuffers : cl_mem'[n] = cl_mem[n]
           /\ dec_size' = dec_size
           /\ padded_dec_size' = padded_dec_size
           /\ << cl_mem, raw_size, padded_raw_size >>'
                 # << cl_mem, raw_size, padded_raw_size >> =>
                \E t \in Threads :
                    /\ Steps(t, "grow", "copy_raw")
                    /\ frame[t].len_raw > raw_size
                    /\ \A n \in RawSideBuffers : cl_mem'[n].id # cl_mem[n].id
                    /\ raw_size' = frame[t].len_raw
                    /\ padded_raw_size' = PaddedSize(raw_size', block_size) ]_vars

\* C17 witness: a call has grown the raw-side buffers beyond dec_size and
\* stands right after the growth.
C17_Witness ==
    \E t \in Threads :
        /\ frame[t].pc = "copy_raw"
        /\ "buffers" \in frame[t].bound
        /\ raw_size = frame[t].len_raw
        /\ raw_size > dec_size
        /\ \A n \in RawSideBuffers : cl_mem[n].id > 0

\* under fair scheduling a call that waits for the guard gets it
WaitingCallAcquires ==
    \A t \in Threads :
        (frame[t].pc = "acquire") ~> (frame[t].pc \in GuardedPcs)

\* C20: the guard is held exactly while a call is inside the with block:
\* every step that ends a call, raising or not, at whatever stage, gives
\* the guard back; a call inside the with block can always take its next
\* step, and a call that waits while no call is inside can acquire the
\* guard.
C20_GuardNeverLeftHeld ==
    /\ [](/\ sem = SemInit - Cardinality(Holders)
          /\ \A t \in Holders : ENABLED Body(t)
          /\ Holders = {} =>
                \A t \in Threads :
                    frame[t].pc = "acquire" => ENABLED Acquire(t))
    /\ [][ \A t \in Threads :
             (frame[t].pc \in GuardedPcs /\ frame'[t].pc = "done")
                => sem' = sem + 1 ]_vars

\* C20 witness: a call that had grown the buffers and read the counter
\* back has raised, the guard is free, and the other thread's call still
\* waits for it.
C20_Witness ==
    \E t, u \in Threads :
        /\ frame[t].pc = "done"
        /\ frame[t].result = "NameError"
        /\ Len(frame[t].issued) = 6
        /\ frame[u].pc = "acquire"
        /\ sem = SemInit

(***************************************************************************)
(* Properties of PlotWidgetTestCase, checked under SpecHarness.            *)
(***************************************************************************)
\* C10: tearDown completes: _waitForPlotClosed makes at most 100 waits of
\* 10 ms, the base-class tearDown is then called, and a widget that is not
\* destroyed gives exactly one logged error.
C10_TearDownCompletes ==
    /\ [](/\ waits <= PollBudget
          /\ waited_ms = waits * WaitMs
          /\ errors <= 1
          /\ h_pc = "done" =>
                /\ trace[Len(trace)] = "super_tearDown"
                /\ widget.state # "destroyed" => errors = 1)
    /\ <>(h_pc = "done")

\* C10 witness: tearDown is over, the widget was never destroyed, the whole
\* budget was waited and one error was logged.
C10_Witness ==
    /\ h_pc = "done"
    /\ widget.state # "destroyed"
    /\ plotAlive
    /\ waits = PollBudget
    /\ errors = 1

\* the statements of setUp and of tearDown up to the poll loop, in the
\* order of the claim
Lifecycle ==
    << "_createPlot", "show", "plotAlive", "qWaitForWindowExposed",
       "mouseClick", "processEvents", "setAttribute", "connect", "close",
       "del" >>

\* the first n entries of a sequence
Take(s, n) == SubSeq(s, 1, Min(n, Len(s)))

\* C11: the statements of setUp and tearDown run in the order create,
\* show, plotAlive set, exposure wait, click, flush, WA_DeleteOnClose,
\* connect, close, reference dropped; the poll loop starts only after the
\* reference is dropped; plotAlive goes from true to false only in a step
\* in which the widget is destroyed with the callback connected.
C11_LifecycleOrder ==
    /\ [](/\ IsPrefix(Take(trace, Len(Lifecycle)), Lifecycle)
          /\ h_pc \in {"for", "if", "qWait", "else"} \/ polls > 0
                => Take(trace, Len(Lifecycle)) = Lifecycle
          /\ widget.deleteOnClose /\ widget.connected
                <=> Len(trace) >= 8
          /\ widget.state \in {"closed", "destroyed"} => Len(trace) >= 9)
    /\ [][ (plotAlive /\ ~plotAlive') =>
              /\ widget.connected
              /\ widget.state # "destroyed"
              /\ widget'.state = "destroyed" ]_vars

\* C11 witness: a whole test case has run, the widget was destroyed
\* during the poll loop and the callback has cleared plotAlive.
C11_Witness ==
    /\ h_pc = "done"
    /\ widget.state = "destroyed"
    /\ ~plotAlive
    /\ waits > 0
    /\ errors = 0

\* C19: when _waitForPlotClosed is over, the error has been logged if and
\* only if plotAlive is still true: a destroyed callback that ran during
\* any of the waits, the last included, leaves no error.
C19_ErrorIffStillAlive ==
    h_pc \in {"super_tearDown", "done"} => (errors > 0 <=> plotAlive)

(***************************************************************************)
(* Properties of the module test_medianfilter, checked under SpecMedian.   *)
(***************************************************************************)
\* C12: without scipy the import of the test module raises nothing and
\* both test methods are reported as skipped; with scipy and without an
\* OpenCL context testOpenCLMedFilt2d is reported as skipped and
\* testCppMedFilt2d runs.
C12_CapabilityGating ==
    m_pc # "import_scipy" =>
        /\ ~environment.scipy =>
            /\ raised = "none"
            /\ m_pc = "finished" =>
                  \A t \in TestMethods : outcome[t] = "skipped"
        /\ (environment.scipy /\ ~environment.ocl /\ m_pc = "finished") =>
            /\ outcome["testOpenCLMedFilt2d"] = "skipped"
            /\ outcome["testCppMedFilt2d"] \in {"passed", "failed"}

C18_WorkGroupClamped ==
    c_pc # "call" =>
        /\ c_raised = "none"
        /\ c_passed.given
        /\ c_passed.value <= MaxBlockSize
        /\ c_args.block_size.given =>
              c_passed.value = IF c_args.block_size.value > MaxBlockSize
                               THEN MaxBlockSize
                               ELSE c_args.block_size.value
====
